---- MODULE Spec2Model ----
(***************************************************************************)
(* Procedural tree generation and growth animation (class Tree).           *)
(*                                                                         *)
(* Numbers.  The C++ code computes in float; the model computes in exact   *)
(* integers so that every threshold comparison of the code is decided      *)
(* exactly:                                                                *)
(*   - time is counted in centiseconds: max_growth_time = 10 (seconds)     *)
(*     and max_growth_time * 0.15f seconds is max_growth_time * 15 cs;     *)
(*   - a branch's growth_progress holds the numerator of the fraction      *)
(*     over growth_duration, a leaf's the numerator over                   *)
(*     leaf_growth_duration (std::min(1.0f, elapsed / d) is                *)
(*     Min(d, elapsed) / d);                                               *)
(*   - lengths, radii and sizes are in thousandths, directions in tenths;  *)
(*   - positions returned by the position resolver are scaled by           *)
(*     growth_duration (they carry one growth fraction per coordinate).    *)
(* Indices into branches are the code's 0-based indices; the TLA+          *)
(* sequence holds branch i at position i + 1.                              *)
(***************************************************************************)
EXTENDS Integers, Sequences, FiniteSets, TLC

VARIABLES
    branches,             \* std::vector<TreeBranch>
    leaves,               \* std::vector<TreeLeaf>
    branch_vertices,      \* std::vector<float>, held vertex by vertex
    leaf_vertices,        \* std::vector<float>, held vertex by vertex
    current_growth_time,  \* the animation timer (cs)
    last_call,            \* history: the public method that produced the state
    elapsed_time,         \* history: sum of the frame durations since generate()
    discarded_growth      \* history: the last call was generate() and the tree it
                          \* replaced had started to grow

vars == <<branches, leaves, branch_vertices, leaf_vertices, current_growth_time,
          last_call, elapsed_time, discarded_growth>>

(***************************************************************************)
(* Bounds of the exploration.                                              *)
(***************************************************************************)
\* Largest accumulated time explored (cs); updateGrowth is not taken past it.
MaxTime == 1500

\* Frame durations handed to updateGrowth (cs), all >= 0.
DeltaChoices == {0, 10, 150, 1000}

(***************************************************************************)
(* Construction parameters (Tree::Tree).                                   *)
(***************************************************************************)
max_growth_time == 10

max_generations == 6

length_reduction_factor == 70     \* 0.7f, in percent

radius_reduction_factor == 70     \* 0.7f, in percent

Min(a, b) == IF a < b THEN a ELSE b

Max(a, b) == IF a > b THEN a ELSE b

(***************************************************************************)
(* glm::vec3 with integer coordinates.                                     *)
(***************************************************************************)
Vec3(x, y, z) == <<x, y, z>>

VAdd(a, b) == <<a[1] + b[1], a[2] + b[2], a[3] + b[3]>>

VSub(a, b) == <<a[1] - b[1], a[2] - b[2], a[3] - b[3]>>

VMul(a, k) == <<a[1] * k, a[2] * k, a[3] * k>>

\* direction (tenths) * length
VDir(d, length) == <<(d[1] * length) \div 10, (d[2] * length) \div 10, (d[3] * length) \div 10>>

(***************************************************************************)
(* The random draws of generateBranch.  Every call seeds a fresh mt19937   *)
(* from std::random_device, so each draw is an arbitrary value of its      *)
(* distribution.  A random source rnd fixes the outcome of every draw of   *)
(* one generate() call as tapes read cyclically: the child count and the   *)
(* leaf count by the index of the drawing branch, the per-leaf draws by    *)
(* the leaf's number j.                                                    *)
(***************************************************************************)
Draw(tape, k) == tape[(k % Len(tape)) + 1]

\* A tape of 256 draws, all low except the draws listed in at.
Tape(low, at) == [k \in 1..256 |-> IF (k - 1) \in DOMAIN at THEN at[k - 1] ELSE low]

\* child_count_dist(2, 4) and leaf_count_dist(6, 14): every draw the lowest value
LowestDraws == [child_count |-> <<2>>, leaf_count |-> <<6>>]

\* ... and a source whose branches 4 and 5 draw 3 and 4 children and whose
\* branches 2, 3 and 6 draw 14, 7 and 9 leaves
VariedDraws == [child_count |-> Tape(2, (4 :> 3) @@ (5 :> 4)),
                leaf_count  |-> Tape(6, (2 :> 14) @@ (3 :> 7) @@ (6 :> 9))]

RandomSource == {LowestDraws, VariedDraws}

\* delay_dist(0.0f, 4.0f), in cs
SpawnDelayTape == <<0, 200, 390, 100>>

\* size_dist(0.28f, 0.45f), in thousandths
SizeTape == <<280, 450, 300>>

\* leaf offsets angle_dist * (0.4, 0.3, 0.4), in thousandths
OffsetTape == <<Vec3(400, 0, 0), Vec3(0, 300, -400), Vec3(-200, -300, 100)>>

\* leaf normals (normalised, in tenths): straight up and tilted
NormalTape == <<Vec3(0, 10, 0), Vec3(6, 8, 0)>>

(***************************************************************************)
(* Direction of child i of num_children: azimuth i / n * 2 pi plus a       *)
(* variation within +-45 degrees, elevation 30 +- 20 degrees.  The drawn   *)
(* directions are the unit vectors of elevation asin(0.6) whose azimuth is *)
(* a multiple of 90 degrees inside the child's azimuth range.              *)
(***************************************************************************)
Azimuths == <<Vec3(0, 6, 8), Vec3(8, 6, 0), Vec3(0, 6, -8), Vec3(-8, 6, 0)>>

child_direction(i, num_children) ==
    Azimuths[(((4 * i + (num_children \div 2)) \div num_children) % 4) + 1]

(***************************************************************************)
(* Tree::generateBranch.  st = [branches, leaves] is the pair of vectors   *)
(* the recursion appends to.                                               *)
(***************************************************************************)
NewLeaf(rnd, branch_index, branch_end, j) ==
    [position            |-> VAdd(branch_end, Draw(OffsetTape, j)),
     normal              |-> Draw(NormalTape, j),
     size                |-> Draw(SizeTape, j),
     growth_progress     |-> 0,
     parent_branch_index |-> branch_index,
     spawn_delay         |-> Draw(SpawnDelayTape, j + branch_index)]

\* A mutation of NewBranch: the link to the parent is not recorded.
NewBranch_unlinked(parent_index, start, direction, length, radius, generation) ==
    [start           |-> start,
     end             |-> VAdd(start, VDir(direction, length)),
     radius          |-> radius,
     generation      |-> generation,
     growth_progress |-> 0,
     children        |-> <<>>,
     parent_index    |-> -1]

\* TreeBranch branch; branch.start = start; ... branch.parent_index = parent_index;
NewBranch(parent_index, start, direction, length, radius, generation) ==
    [start           |-> start,
     end             |-> VAdd(start, VDir(direction, length)),
     radius          |-> radius,
     generation      |-> generation,
     growth_progress |-> 0,
     children        |-> <<>>,
     parent_index    |-> parent_index]

\* A mutation of has_leaves: the primary branches carry leaves too.
has_leaves_from_1(generation) == generation >= 1

\* if (generation >= 2)
has_leaves(generation) == generation >= 2

\* A mutation of link_child: the child is not entered in its parent's list.
link_child_nothing(bs, parent_index, branch_index) == bs

\* if (parent_index >= 0) branches[parent_index].children.push_back(branch_index)
link_child(bs, parent_index, branch_index) ==
    IF parent_index >= 0
    THEN [bs EXCEPT ![parent_index + 1].children = Append(@, branch_index)]
    ELSE bs

RECURSIVE generateBranch(_, _, _, _, _, _, _, _)
RECURSIVE generateChildren(_, _, _, _, _, _, _, _, _)

generateChildren(st, rnd, branch_index, branch_end, length, radius, generation, i, num_children) ==
    IF i >= num_children THEN st
    ELSE LET child_length == (length * length_reduction_factor) \div 100
             child_radius == (radius * radius_reduction_factor) \div 100
             st1 == generateBranch(st, rnd, branch_index, branch_end,
                                   child_direction(i, num_children),
                                   child_length, child_radius, generation + 1)
         IN generateChildren(st1, rnd, branch_index, branch_end, length, radius,
                             generation, i + 1, num_children)

generateBranch(st, rnd, parent_index, start, direction, length, radius, generation) ==
    LET branch == NewBranch(parent_index, start, direction, length, radius, generation)
        branch_index == Len(st.branches)
        pushed == Append(st.branches, branch)
        linked == link_child(pushed, parent_index, branch_index)
        st1 == [st EXCEPT !.branches = linked]
        st2 == IF generation < max_generations
               THEN generateChildren(st1, rnd, branch_index, branch.end, length, radius,
                                     generation, 0, Draw(rnd.child_count, branch_index))
               ELSE st1
        num_leaves == Draw(rnd.leaf_count, branch_index)
    IN IF has_leaves(generation)
       THEN [st2 EXCEPT !.leaves =
                 @ \o [j \in 1..num_leaves |-> NewLeaf(rnd, branch_index, branch.end, j - 1)]]
       ELSE st2

\* The structure built by one generate() call under the random source rnd.
Generated(rnd) ==
    generateBranch([branches |-> <<>>, leaves |-> <<>>], rnd, -1,
                   Vec3(0, 0, 0), Vec3(0, 10, 0), 3000, 200, 0)

GeneratedTrees == [rnd \in RandomSource |-> Generated(rnd)]

(***************************************************************************)
(* Tree::updateGrowth: timing constants (cs).                              *)
(***************************************************************************)
generation_delay == max_growth_time * 15       \* max_growth_time * 0.15f

growth_duration == max_growth_time * 40        \* max_growth_time * 0.4f

\* A mutation of leaf_start_offset: the offset is left out.
no_leaf_start_offset == max_growth_time * 0

leaf_start_offset == max_growth_time * 10      \* max_growth_time * 0.1f

leaf_growth_duration == max_growth_time * 10   \* max_growth_time * 0.1f

\* A mutation of parent_gate: the child starts once its parent is 40% grown.
parent_gate_at_40(parent_progress) == parent_progress * 100 > 40 * growth_duration

\* parent_progress > 0.6f, for a numerator over growth_duration
parent_gate(parent_progress) == parent_progress * 100 > 60 * growth_duration

\* A mutation of leaf_gate: a leaf does not wait for its parent branch.
leaf_gate_open(parent_progress) == parent_progress >= 0

\* parent_progress > 0.4f, for a numerator over growth_duration
leaf_gate(parent_progress) == parent_progress * 100 > 40 * growth_duration

\* A mutation of branch_progress: the std::min clamp is missing.
branch_progress_unclamped(elapsed) == elapsed

\* std::min(1.0f, elapsed / growth_duration), as a numerator over growth_duration
branch_progress(elapsed) == Min(growth_duration, elapsed)

\* std::min(1.0f, elapsed / leaf_growth_duration), as a numerator over leaf_growth_duration
leaf_progress(elapsed) == Min(leaf_growth_duration, elapsed)

\* A mutation of parent_60_percent_time: the time the parent is fully grown.
parent_100_percent_time(parent) ==
    growth_duration + parent.generation * generation_delay

\* 0.6f * growth_duration + parent.generation * generation_delay
parent_60_percent_time(parent) ==
    (60 * growth_duration) \div 100 + parent.generation * generation_delay

\* std::max(start_time, parent_60_percent_time)
actual_start_time(start_time, parent) == Max(start_time, parent_60_percent_time(parent))

valid_index(bs, index) == index >= 0 /\ index < Len(bs)

(***************************************************************************)
(* Body of the branch loop for one branch.  parent is the record the loop  *)
(* reads at branches[branch.parent_index] when it reaches this branch.     *)
(***************************************************************************)
updateBranch(bs, branch, parent, t) ==
    LET start_time == branch.generation * generation_delay
    IN IF t > start_time
       THEN IF branch.generation = 0
            THEN branch_progress(t - start_time)
            ELSE IF valid_index(bs, branch.parent_index)
                 THEN IF parent_gate(parent.growth_progress)
                      THEN branch_progress(t - actual_start_time(start_time, parent))
                      ELSE branch.growth_progress
                 ELSE branch.growth_progress
       ELSE branch.growth_progress

(***************************************************************************)
(* for (auto& branch : branches): the loop runs in index order and writes  *)
(* in place, so when it reaches branch i it reads a parent of smaller      *)
(* index as this call has already rewritten it, and any other parent as    *)
(* the previous call left it.                                              *)
(***************************************************************************)
\* A mutation of visited_before: the loop runs from the last branch to the first.
visited_before_reversed(p, i) == p > i

\* A mutation of visited_before: only the branch written last is seen rewritten.
visited_before_adjacent(p, i) == p = i - 1

\* The range-for loop reaches branch p before branch i.
visited_before(p, i) == p < i

\* A mutation of parent_seen: every branch reads its parent as the previous
\* call left it (the children are updated before their parents).
parent_seen_stale(bs, updated, i) ==
    LET p == bs[i + 1].parent_index
    IN IF valid_index(bs, p) THEN bs[p + 1] ELSE bs[i + 1]

parent_seen(bs, updated, i) ==
    LET p == bs[i + 1].parent_index
    IN IF valid_index(bs, p)
       THEN (IF visited_before(p, i) THEN updated[p] ELSE bs[p + 1])
       ELSE bs[i + 1]

updateBranches(bs, t) ==
    LET updated[i \in 0..(Len(bs) - 1)] ==
            [bs[i + 1] EXCEPT !.growth_progress =
                 updateBranch(bs, bs[i + 1], parent_seen(bs, updated, i), t)]
    IN [k \in 1..Len(bs) |-> updated[k - 1]]

\* Body of the leaf loop for one leaf, reading the updated branches bs.
updateLeaf(bs, t, leaf) ==
    IF valid_index(bs, leaf.parent_branch_index)
    THEN LET parent == bs[leaf.parent_branch_index + 1]
             base_start_time == parent.generation * generation_delay + leaf_start_offset
             start_time == base_start_time + leaf.spawn_delay
         IN IF leaf_gate(parent.growth_progress) /\ t > start_time
            THEN leaf_progress(t - start_time)
            ELSE leaf.growth_progress
    ELSE leaf.growth_progress

\* A mutation of updateLeaves: the loop also stores the animated size in the leaf.
updateLeaves_resizing(bs, ls, t) ==
    [k \in DOMAIN ls |->
        [ls[k] EXCEPT !.growth_progress = updateLeaf(bs, t, ls[k]),
                      !.size = (@ * updateLeaf(bs, t, ls[k])) \div leaf_growth_duration]]

\* for (auto& leaf : leaves)
updateLeaves(bs, ls, t) ==
    [k \in DOMAIN ls |-> [ls[k] EXCEPT !.growth_progress = updateLeaf(bs, t, ls[k])]]

(***************************************************************************)
(* Tree::calculateAbsoluteBranchStart / calculateAbsoluteBranchEnd.        *)
(* The results are scaled by growth_duration.                              *)
(***************************************************************************)
\* A mutation of zero_vector: an invalid index yields another point.
unit_vector == Vec3(1, 1, 1)

\* glm::vec3(0.0f), returned for an invalid index
zero_vector == Vec3(0, 0, 0)

\* A mutation of calculateAbsoluteBranchStart: every branch starts at its
\* stored start point, whatever its parent's growth.
calculateAbsoluteBranchStart_stored(bs, branch_index) ==
    IF ~valid_index(bs, branch_index) THEN zero_vector
    ELSE VMul(bs[branch_index + 1].start, growth_duration)

RECURSIVE calculateAbsoluteBranchStart(_, _)
RECURSIVE calculateAbsoluteBranchEnd(_, _)

\* A mutation of calculateAbsoluteBranchEnd: the branch's own extension is left out.
calculateAbsoluteBranchEnd_ungrown(bs, branch_index) ==
    calculateAbsoluteBranchStart(bs, branch_index)

calculateAbsoluteBranchStart(bs, branch_index) ==
    IF ~valid_index(bs, branch_index) THEN zero_vector
    ELSE LET branch == bs[branch_index + 1]
         IN IF branch.parent_index = -1
            THEN VMul(branch.start, growth_duration)
            ELSE calculateAbsoluteBranchEnd(bs, branch.parent_index)

calculateAbsoluteBranchEnd(bs, branch_index) ==
    IF ~valid_index(bs, branch_index) THEN zero_vector
    ELSE LET branch == bs[branch_index + 1]
             absolute_start == calculateAbsoluteBranchStart(bs, branch_index)
             local_direction == VSub(branch.end, branch.start)
             current_direction == VMul(local_direction, branch.growth_progress)
         IN VAdd(absolute_start, current_direction)

(***************************************************************************)
(* Tree::addBranchSegment.  A vertex is one insert of 9 floats: position   *)
(* (x, y, z, w), texture coordinate (u, v) and normal.  In place of float  *)
(* coordinates a point of a ring is kept as (centre, radius, index of the  *)
(* angle in eighths of a turn) and its radial normal as (axis end - start  *)
(* of the ring's frame, index of the angle); u is kept in eighths.         *)
(***************************************************************************)
segments == 8

Vertex(position, texcoord, normal) ==
    [position |-> position, texcoord |-> texcoord, normal |-> normal]

SegmentQuad(start, end, start_radius, end_radius, i) ==
    LET axis == VSub(end, start)
        p1 == <<start, start_radius, i>>
        p2 == <<start, start_radius, i + 1>>
        p3 == <<end, end_radius, i>>
        p4 == <<end, end_radius, i + 1>>
        n1 == <<axis, i>>
        n2 == <<axis, i + 1>>
        t1 == <<i, 0>>
        t2 == <<i + 1, 0>>
        t3 == <<i, 1>>
        t4 == <<i + 1, 1>>
    IN << Vertex(p1, t1, n1), Vertex(p2, t2, n2), Vertex(p3, t3, n1),
          Vertex(p2, t2, n2), Vertex(p4, t4, n2), Vertex(p3, t3, n1) >>

RECURSIVE addBranchSegmentFrom(_, _, _, _, _)

addBranchSegmentFrom(start, end, start_radius, end_radius, i) ==
    IF i >= segments THEN <<>>
    ELSE SegmentQuad(start, end, start_radius, end_radius, i)
         \o addBranchSegmentFrom(start, end, start_radius, end_radius, i + 1)

\* The vertices one call appends to branch_vertices.
addBranchSegment(start, end, start_radius, end_radius) ==
    addBranchSegmentFrom(start, end, start_radius, end_radius, 0)

\* A mutation of branchMeshOf: a branch that has not started is emitted too.
branchMeshOf_unstarted(bs, i) ==
    LET branch == bs[i + 1]
    IN IF branch.growth_progress >= 0
       THEN addBranchSegment(calculateAbsoluteBranchStart(bs, i),
                             calculateAbsoluteBranchEnd(bs, i),
                             branch.radius, (branch.radius * 70) \div 100)
       ELSE <<>>

\* The vertices the loop appends for branch i (none while it has not started).
branchMeshOf(bs, i) ==
    LET branch == bs[i + 1]
    IN IF branch.growth_progress > 0
       THEN addBranchSegment(calculateAbsoluteBranchStart(bs, i),
                             calculateAbsoluteBranchEnd(bs, i),
                             branch.radius, (branch.radius * 70) \div 100)
       ELSE <<>>

RECURSIVE updateBranchMeshRange(_, _, _)

\* The appends of the loop for branches lo .. hi - 1, in index order.
updateBranchMeshRange(bs, lo, hi) ==
    IF hi <= lo THEN <<>>
    ELSE IF hi = lo + 1 THEN branchMeshOf(bs, lo)
    ELSE LET mid == (lo + hi) \div 2
         IN updateBranchMeshRange(bs, lo, mid) \o updateBranchMeshRange(bs, mid, hi)

\* A mutation of clear: the previous content is kept.
clear_nothing(vertices) == vertices

\* branch_vertices.clear() / leaf_vertices.clear()
clear(vertices) == <<>>

\* Tree::updateBranchMesh: the new content of branch_vertices.
updateBranchMesh(vertices, bs) == clear(vertices) \o updateBranchMeshRange(bs, 0, Len(bs))

(***************************************************************************)
(* Tree::addLeafQuad.  size and the corner offsets are scaled by           *)
(* leaf_growth_duration^2 (two growth fractions); a corner is kept as      *)
(* (centre, edge length, corner number), its frame being the normal's.     *)
(***************************************************************************)
min_size == 50        \* 0.05f, in thousandths

\* size = min_size + (size - min_size) * growth, with size = dynamic_size
leaf_quad_size(dynamic_size, growth) ==
    min_size * leaf_growth_duration * leaf_growth_duration
        + (dynamic_size - min_size * leaf_growth_duration) * growth

addLeafQuad(position, normal, dynamic_size, growth) ==
    LET size == leaf_quad_size(dynamic_size, growth)
        v1 == <<position, size, 1>>
        v2 == <<position, size, 2>>
        v3 == <<position, size, 3>>
        v4 == <<position, size, 4>>
        t1 == <<0, 0>>
        t2 == <<1, 0>>
        t3 == <<1, 1>>
        t4 == <<0, 1>>
        back_normal == VMul(normal, -1)
    IN << Vertex(v1, t1, normal), Vertex(v2, t2, normal), Vertex(v3, t3, normal),
          Vertex(v1, t1, normal), Vertex(v3, t3, normal), Vertex(v4, t4, normal),
          Vertex(v1, t1, back_normal), Vertex(v3, t3, back_normal), Vertex(v2, t2, back_normal),
          Vertex(v1, t1, back_normal), Vertex(v4, t4, back_normal), Vertex(v3, t3, back_normal) >>

\* The vertices the loop appends for leaf number k (none while it has not started).
leafMeshOf(bs, leaf) ==
    IF leaf.growth_progress > 0 /\ valid_index(bs, leaf.parent_branch_index)
    THEN LET parent_branch == bs[leaf.parent_branch_index + 1]
             original_leaf_offset == VSub(leaf.position, parent_branch.end)
             parent_absolute_end == calculateAbsoluteBranchEnd(bs, leaf.parent_branch_index)
             pos == VAdd(parent_absolute_end, VMul(original_leaf_offset, growth_duration))
             dynamic_size == leaf.size * leaf.growth_progress
         IN addLeafQuad(pos, leaf.normal, dynamic_size, leaf.growth_progress)
    ELSE <<>>

RECURSIVE updateLeafMeshRange(_, _, _, _)

\* The appends of the loop for leaves lo .. hi - 1 (0-based), in order.
updateLeafMeshRange(bs, ls, lo, hi) ==
    IF hi <= lo THEN <<>>
    ELSE IF hi = lo + 1 THEN leafMeshOf(bs, ls[lo + 1])
    ELSE LET mid == (lo + hi) \div 2
         IN updateLeafMeshRange(bs, ls, lo, mid) \o updateLeafMeshRange(bs, ls, mid, hi)

\* Tree::updateLeafMesh: the new content of leaf_vertices.
updateLeafMesh(vertices, bs, ls) ==
    clear(vertices) \o updateLeafMeshRange(bs, ls, 0, Len(ls))

\* branch_vertices.size() / 9 and leaf_vertices.size() / 9
getBranchVertexCount == (9 * Len(branch_vertices)) \div 9

getLeafVertexCount == (9 * Len(leaf_vertices)) \div 9

\* current_growth_time / max_growth_time, in percent (max_growth_time is in seconds)
getGrowthProgress == current_growth_time \div max_growth_time

(***************************************************************************)
(* Tree::Tree and Tree::generate.                                          *)
(***************************************************************************)
Init ==
    /\ branches = <<>>
    /\ leaves = <<>>
    /\ branch_vertices = <<>>
    /\ leaf_vertices = <<>>
    /\ current_growth_time = 0
    /\ last_call = "Tree"
    /\ elapsed_time = 0
    /\ discarded_growth = FALSE

\* A mutation of reset_growth_time: generate() leaves the timer running.
kept_growth_time == current_growth_time

\* current_growth_time = 0.0f
reset_growth_time == 0

generate ==
    \E rnd \in RandomSource :
        /\ branches' = clear(branches) \o GeneratedTrees[rnd].branches
        /\ leaves' = clear(leaves) \o GeneratedTrees[rnd].leaves
        /\ branch_vertices' = clear(branch_vertices)
        /\ leaf_vertices' = clear(leaf_vertices)
        /\ current_growth_time' = reset_growth_time
        /\ last_call' = "generate"
        /\ elapsed_time' = 0
        /\ discarded_growth' = (\E k \in DOMAIN branches : branches[k].growth_progress > 0)

(***************************************************************************)
(* Tree::updateGrowth(delta_time).                                         *)
(***************************************************************************)
updateGrowth(delta_time) ==
    /\ current_growth_time + delta_time <= MaxTime
    /\ current_growth_time' = current_growth_time + delta_time
    /\ branches' = updateBranches(branches, current_growth_time')
    /\ leaves' = updateLeaves(branches', leaves, current_growth_time')
    /\ branch_vertices' = updateBranchMesh(branch_vertices, branches')
    /\ leaf_vertices' = updateLeafMesh(leaf_vertices, branches', leaves')
    /\ last_call' = "updateGrowth"
    /\ elapsed_time' = elapsed_time + delta_time
    /\ discarded_growth' = FALSE

Next ==
    \/ generate
    \/ \E delta_time \in DeltaChoices : updateGrowth(delta_time)

Spec == Init /\ [][Next]_vars

(***************************************************************************)
(* The program run of main: initOpenGLProgram calls generate() once, then  *)
(* drawScene calls updateGrowth(deltaTime) in every frame of the render    *)
(* loop, with the time that passed since the previous frame.  The loop     *)
(* keeps running, and frames of positive duration keep coming.             *)
(***************************************************************************)
initOpenGLProgram == branches = <<>> /\ generate

drawScene(deltaTime) == branches # <<>> /\ updateGrowth(deltaTime)

PositiveDeltas == {deltaTime \in DeltaChoices : deltaTime > 0}

\* A frame of positive duration.
PositiveFrame == \E deltaTime \in PositiveDeltas : drawScene(deltaTime)

\* ENABLED <<PositiveFrame>>_vars: the tree exists and the explored time
\* leaves room for a frame (the guard of updateGrowth).
PositiveFrameEnabled ==
    /\ branches # <<>>
    /\ \E deltaTime \in PositiveDeltas : current_growth_time + deltaTime <= MaxTime

MainNext ==
    \/ initOpenGLProgram
    \/ \E deltaTime \in DeltaChoices : drawScene(deltaTime)

\* Weak fairness of initOpenGLProgram and of PositiveFrame, the latter
\* written out as <>[]ENABLED => []<> with its enabling condition.
MainSpec ==
    /\ Init
    /\ [][MainNext]_vars
    /\ WF_vars(initOpenGLProgram)
    /\ (<>[]PositiveFrameEnabled => []<><<PositiveFrame>>_vars)
(***************************************************************************)
(* Notions the properties are stated with.                                 *)
(***************************************************************************)
\* Total growth time T, in cs.
TotalGrowthTime == max_growth_time * 100

\* num / den = p / q
FractionEq(num, den, p, q) == num * q = p * den

\* num / den > p / q, for positive den and q
FractionGt(num, den, p, q) == num * q > p * den

NonRootBranches == {k \in DOMAIN branches : branches[k].parent_index >= 0}

ParentOf(k) == branches[branches[k].parent_index + 1]

LeafParent(k) == branches[leaves[k].parent_branch_index + 1]

StartedBranches == {k \in DOMAIN branches : branches[k].growth_progress > 0}

StartedLeaves == {k \in DOMAIN leaves : leaves[k].growth_progress > 0}

PartlyGrownBranches ==
    {k \in DOMAIN branches : /\ branches[k].growth_progress > 0
                             /\ branches[k].growth_progress < growth_duration}

PartlyGrownLeaves ==
    {k \in DOMAIN leaves : /\ leaves[k].growth_progress > 0
                           /\ leaves[k].growth_progress < leaf_growth_duration}

(***************************************************************************)
(* C1: after generate() and any sequence of updateGrowth(dt) calls with    *)
(* dt >= 0, the growth fraction of every branch and of every leaf lies in  *)
(* [0, 1].                                                                 *)
(***************************************************************************)
C1_GrowthInUnitInterval ==
    /\ \A k \in DOMAIN branches :
           /\ branches[k].growth_progress >= 0
           /\ branches[k].growth_progress <= growth_duration
    /\ \A k \in DOMAIN leaves :
           /\ leaves[k].growth_progress >= 0
           /\ leaves[k].growth_progress <= leaf_growth_duration

\* Branches and leaves at 0, strictly inside (0, 1) and at 1 after an update.
C1_Witness ==
    /\ last_call = "updateGrowth"
    /\ \E k \in NonRootBranches : branches[k].growth_progress = 0
    /\ \E k \in NonRootBranches : k \in PartlyGrownBranches
    /\ \E k \in DOMAIN branches : branches[k].growth_progress = growth_duration
    /\ \E k \in DOMAIN leaves : leaves[k].growth_progress = 0
    /\ PartlyGrownLeaves # {}
    /\ \E k \in DOMAIN leaves : leaves[k].growth_progress = leaf_growth_duration

(***************************************************************************)
(* C2: between two generate() calls no updateGrowth(dt) call with dt >= 0  *)
(* decreases the growth fraction of a branch or of a leaf.                 *)
(***************************************************************************)
C2_NonDecreasing ==
    [][last_call' = "updateGrowth" =>
          /\ \A k \in DOMAIN branches :
                 branches'[k].growth_progress >= branches[k].growth_progress
          /\ \A k \in DOMAIN leaves :
                 leaves'[k].growth_progress >= leaves[k].growth_progress]_vars

\* Growth under way: branches and leaves that still have to rise.
C2_Witness ==
    /\ last_call = "updateGrowth"
    /\ elapsed_time > 0
    /\ Cardinality(PartlyGrownBranches) >= 2
    /\ Cardinality(PartlyGrownLeaves) >= 2

(***************************************************************************)
(* C3: path independence.  However the elapsed time was split into frames, *)
(* the growth fractions and the vertex buffers are those a single          *)
(* updateGrowth(elapsed time) call produces on the freshly generated tree. *)
(***************************************************************************)
FreshBranches == [k \in DOMAIN branches |-> [branches[k] EXCEPT !.growth_progress = 0]]

FreshLeaves == [k \in DOMAIN leaves |-> [leaves[k] EXCEPT !.growth_progress = 0]]

SingleCallBranches == updateBranches(FreshBranches, elapsed_time)

SingleCallLeaves == updateLeaves(SingleCallBranches, FreshLeaves, elapsed_time)

C3_PathIndependent ==
    /\ branches = SingleCallBranches
    /\ leaves = SingleCallLeaves
    /\ last_call = "updateGrowth" =>
           /\ branch_vertices = updateBranchMesh(<<>>, SingleCallBranches)
           /\ leaf_vertices = updateLeafMesh(<<>>, SingleCallBranches, SingleCallLeaves)

\* 2.6 s is no single frame duration: it is reached by several calls only.
C3_Witness ==
    /\ last_call = "updateGrowth"
    /\ elapsed_time = 260
    /\ elapsed_time \notin DeltaChoices
    /\ \E k \in NonRootBranches : k \in PartlyGrownBranches
    /\ branch_vertices # <<>>

(***************************************************************************)
(* C4: updateGrowth(0) changes no branch growth fraction, no leaf growth   *)
(* fraction and neither vertex buffer.                                     *)
(***************************************************************************)
C4_AdvanceZeroIdempotent ==
    [][(last_call' = "updateGrowth" /\ elapsed_time' = elapsed_time) =>
          /\ branches' = branches
          /\ leaves' = leaves
          /\ branch_vertices' = branch_vertices
          /\ leaf_vertices' = leaf_vertices]_vars

\* A state with non-empty buffers and growth under way, where updateGrowth(0)
\* rebuilds both buffers.
C4_Witness ==
    /\ last_call = "updateGrowth"
    /\ 0 \in DeltaChoices
    /\ current_growth_time <= MaxTime
    /\ PartlyGrownBranches # {}
    /\ PartlyGrownLeaves # {}
    /\ branch_vertices # <<>>
    /\ leaf_vertices # <<>>

(***************************************************************************)
(* C5: a branch of generation g > 0 has growth fraction > 0 only if the    *)
(* accumulated elapsed time is strictly greater than g * 0.15 * T.         *)
(***************************************************************************)
C5_BranchNotBeforeGenerationDelay ==
    \A k \in DOMAIN branches :
        (branches[k].generation > 0 /\ branches[k].growth_progress > 0)
            => elapsed_time * 100 > branches[k].generation * 15 * TotalGrowthTime

\* Branches of generation >= 2 have started while deeper ones have not.
C5_Witness ==
    /\ \E k \in StartedBranches : branches[k].generation >= 2
    /\ \E k \in DOMAIN branches :
           branches[k].generation > 0 /\ branches[k].growth_progress = 0

(***************************************************************************)
(* C6: a non-root branch has growth fraction > 0 only if its parent's      *)
(* growth fraction is strictly greater than 0.6; while the parent is at or *)
(* below 0.6 the child is still at 0.                                      *)
(***************************************************************************)
C6_ChildWaitsForParent ==
    \A k \in NonRootBranches :
        branches[k].growth_progress > 0
            => FractionGt(ParentOf(k).growth_progress, growth_duration, 6, 10)

\* A child that has started, and a child at 0 under a parent that grows but is
\* not beyond 0.6.
C6_Witness ==
    /\ \E k \in NonRootBranches : branches[k].growth_progress > 0
    /\ \E k \in NonRootBranches :
           /\ branches[k].growth_progress = 0
           /\ ParentOf(k).growth_progress > 0
           /\ ~FractionGt(ParentOf(k).growth_progress, growth_duration, 6, 10)
           /\ ParentOf(k).generation > 0

(***************************************************************************)
(* C7: a leaf has growth fraction > 0 only if the accumulated elapsed time *)
(* is strictly greater than parentGeneration * 0.15 * T + 0.1 * T + the    *)
(* leaf's spawn delay.                                                     *)
(***************************************************************************)
C7_LeafNotBeforeItsStart ==
    \A k \in DOMAIN leaves :
        leaves[k].growth_progress > 0
            => elapsed_time * 100 >
                   LeafParent(k).generation * 15 * TotalGrowthTime
                       + 10 * TotalGrowthTime + leaves[k].spawn_delay * 100

\* A delayed leaf has started; another leaf of a branch past the 0.4 gate has not.
C7_Witness ==
    /\ \E k \in StartedLeaves : leaves[k].spawn_delay > 0
    /\ \E k \in DOMAIN leaves :
           /\ leaves[k].growth_progress = 0
           /\ FractionGt(LeafParent(k).growth_progress, growth_duration, 4, 10)

(***************************************************************************)
(* C8: closed form of the first two generations.  After updates totalling  *)
(* t the root is at min(1, t / (0.4 T)); a generation-1 branch is at 0     *)
(* while t <= 0.24 T and at min(1, (t - 0.24 T) / (0.4 T)) afterwards.     *)
(* With T = 10: at t = 1.5 root = 0.375 and children = 0; at t = 2.5       *)
(* root = 0.625 and children = 0.025.                                      *)
(***************************************************************************)
C8_FirstTwoGenerations ==
    LET t == elapsed_time
        T == TotalGrowthTime
        d == (40 * T) \div 100
        gate == (24 * T) \div 100
    IN /\ \A k \in DOMAIN branches :
              /\ branches[k].generation = 0 =>
                     FractionEq(branches[k].growth_progress, growth_duration, Min(d, t), d)
              /\ (branches[k].generation = 1 /\ t <= gate) =>
                     branches[k].growth_progress = 0
              /\ (branches[k].generation = 1 /\ t > gate) =>
                     FractionEq(branches[k].growth_progress, growth_duration,
                                Min(d, t - gate), d)
       /\ (T = 1000 /\ t = 150) =>
              \A k \in DOMAIN branches :
                  /\ branches[k].generation = 0 =>
                         FractionEq(branches[k].growth_progress, growth_duration, 375, 1000)
                  /\ branches[k].generation = 1 => branches[k].growth_progress = 0
       /\ (T = 1000 /\ t = 250) =>
              \A k \in DOMAIN branches :
                  /\ branches[k].generation = 0 =>
                         FractionEq(branches[k].growth_progress, growth_duration, 625, 1000)
                  /\ branches[k].generation = 1 =>
                         FractionEq(branches[k].growth_progress, growth_duration, 25, 1000)

\* The tree at t = 2.5 s: the root beyond 0.6, its children just started.
C8_Witness ==
    /\ last_call = "updateGrowth"
    /\ elapsed_time = 250
    /\ \E k \in DOMAIN branches :
           branches[k].generation = 0 /\ branches[k].growth_progress > 0
    /\ \E k \in PartlyGrownBranches : branches[k].generation = 1

(***************************************************************************)
(* C9: when the elapsed time reaches the total growth time T               *)
(* (getGrowthProgress() = 1, 100% complete) every branch and every leaf    *)
(* has growth fraction 1.                                                  *)
(***************************************************************************)
C9_FullyGrownAtTotalTime ==
    (branches # <<>> /\ getGrowthProgress >= 100) =>
        /\ \A k \in DOMAIN branches : branches[k].growth_progress = growth_duration
        /\ \A k \in DOMAIN leaves : leaves[k].growth_progress = leaf_growth_duration

(***************************************************************************)
(* C10: after any updateGrowth call the branch vertex count is a multiple  *)
(* of 24 * (number of branches with growth fraction > 0) and the leaf      *)
(* vertex count a multiple of 12 * (number of leaves with growth           *)
(* fraction > 0).                                                          *)
(***************************************************************************)
IsMultipleOf(n, m) == IF m = 0 THEN n = 0 ELSE n % m = 0

C10_VertexCountMultiples ==
    last_call = "updateGrowth" =>
        /\ IsMultipleOf(getBranchVertexCount, 24 * Cardinality(StartedBranches))
        /\ IsMultipleOf(getLeafVertexCount, 12 * Cardinality(StartedLeaves))

\* Some, not all, branches and leaves are in the buffers.
C10_Witness ==
    /\ last_call = "updateGrowth"
    /\ Cardinality(StartedBranches) >= 2
    /\ Cardinality(StartedBranches) < Len(branches)
    /\ Cardinality(StartedLeaves) >= 2
    /\ Cardinality(StartedLeaves) < Len(leaves)
    /\ getBranchVertexCount > 0
    /\ getLeafVertexCount > 0

(***************************************************************************)
(* C11: generate() fully replaces the prior state.  Immediately after any  *)
(* generate() call, also one made after updateGrowth calls, the timer is   *)
(* 0, every branch and leaf growth fraction is 0, both vertex buffers are  *)
(* empty, branch 0 is the only root, and the branches and leaves are those *)
(* of the newly generated tree alone.                                      *)
(***************************************************************************)
C11_GenerateReplacesState ==
    last_call = "generate" =>
        /\ current_growth_time = 0
        /\ \A k \in DOMAIN branches : branches[k].growth_progress = 0
        /\ \A k \in DOMAIN leaves : leaves[k].growth_progress = 0
        /\ branch_vertices = <<>> /\ getBranchVertexCount = 0
        /\ leaf_vertices = <<>> /\ getLeafVertexCount = 0
        /\ {k \in DOMAIN branches : branches[k].parent_index = -1} = {1}
        /\ \E rnd \in RandomSource :
               /\ branches = GeneratedTrees[rnd].branches
               /\ leaves = GeneratedTrees[rnd].leaves

\* generate() has just replaced a tree that had started to grow.
C11_Witness ==
    /\ last_call = "generate"
    /\ discarded_growth
    /\ branches # <<>>
    /\ leaves # <<>>

(***************************************************************************)
(* C12: after generate(), exactly one branch (index 0) has parent index -1 *)
(* and generation 0; every other branch's parent index is a strictly       *)
(* smaller index and its generation is its parent's generation + 1.        *)
(***************************************************************************)
C12_ParentLinksFormTree ==
    branches # <<>> =>
        /\ branches[1].parent_index = -1
        /\ branches[1].generation = 0
        /\ \A k \in DOMAIN branches :
               k > 1 =>
                   /\ branches[k].parent_index >= 0
                   /\ branches[k].parent_index < k - 1
                   /\ branches[k].generation = ParentOf(k).generation + 1

\* A generated tree with branches of 2, 3 and 4 children.
C12_Witness ==
    /\ last_call = "generate"
    /\ \E k \in DOMAIN branches : Len(branches[k].children) = 2
    /\ \E k \in DOMAIN branches : Len(branches[k].children) = 3
    /\ \E k \in DOMAIN branches : Len(branches[k].children) = 4
    /\ \E k \in DOMAIN branches : branches[k].generation >= 2

(***************************************************************************)
(* C13: after generate(), every leaf's parent branch index is a valid      *)
(* index of an existing branch of generation >= 2; branches of generation  *)
(* 0 and 1 carry no leaves.                                                *)
(***************************************************************************)
LeavesOf(k) == {j \in DOMAIN leaves : leaves[j].parent_branch_index = k - 1}

C13_LeavesOnDeepBranches ==
    /\ \A j \in DOMAIN leaves :
           /\ valid_index(branches, leaves[j].parent_branch_index)
           /\ LeafParent(j).generation >= 2
    /\ \A k \in DOMAIN branches :
           branches[k].generation < 2 => LeavesOf(k) = {}

\* A generated tree: a secondary branch with 14 leaves next to a trunk and
\* primary branches.
C13_Witness ==
    /\ last_call = "generate"
    /\ \E k \in DOMAIN branches : branches[k].generation = 0
    /\ \E k \in DOMAIN branches : branches[k].generation = 1
    /\ \E k \in DOMAIN branches :
           branches[k].generation = 2 /\ Cardinality(LeavesOf(k)) = 14

(***************************************************************************)
(* C14: with the default configuration the generated tree has exactly 6    *)
(* generation levels of branches (trunk, primary, secondary, tertiary,     *)
(* quaternary, quinary): the largest generation index of a branch is 5.    *)
(***************************************************************************)
GenerationLevels == {branches[k].generation : k \in DOMAIN branches}

C14_SixGenerationLevels ==
    branches # <<>> =>
        /\ Cardinality(GenerationLevels) = 6
        /\ \A g \in GenerationLevels : g <= 5
        /\ 5 \in GenerationLevels

(***************************************************************************)
(* C15: position resolver recurrence.  absoluteStart(root) is the root's   *)
(* stored start; absoluteStart(child) = absoluteEnd(parent);               *)
(* absoluteEnd(b) = absoluteStart(b) + (storedEnd(b) - storedStart(b)) *   *)
(* growth(b).  Hence for a chain root -> c1 -> c2, absoluteEnd(c2) =       *)
(* rootStart + g0 * vec(root) + g1 * vec(c1) + g2 * vec(c2), in particular *)
(* for the growth fractions 1.0, 0.5, 0.25, and absoluteEnd(root) depends  *)
(* on no other branch's growth fraction.                                   *)
(***************************************************************************)
StoredVec(b) == VSub(b.end, b.start)

\* The sum of the claim for a chain root -> c1 -> c2 (scaled by growth_duration).
ChainEnd(root, c1, c2) ==
    VAdd(VAdd(VAdd(VMul(root.start, growth_duration),
                   VMul(StoredVec(root), root.growth_progress)),
              VMul(StoredVec(c1), c1.growth_progress)),
         VMul(StoredVec(c2), c2.growth_progress))

\* A chain root -> c1 -> c2 with growth fractions 1.0, 0.5 and 0.25.
ChainExample ==
    << [NewBranch(-1, Vec3(1000, 0, -2000), Vec3(0, 10, 0), 3000, 200, 0)
            EXCEPT !.growth_progress = growth_duration],
       [NewBranch(0, Vec3(1000, 3000, -2000), Vec3(8, 6, 0), 2100, 140, 1)
            EXCEPT !.growth_progress = growth_duration \div 2],
       [NewBranch(1, Vec3(2680, 4260, -2000), Vec3(0, 6, -8), 1470, 98, 2)
            EXCEPT !.growth_progress = growth_duration \div 4] >>

\* The branches with every growth fraction but the root's put back to 0.
OnlyRootGrown ==
    [k \in DOMAIN branches |->
        IF k = 1 THEN branches[k] ELSE [branches[k] EXCEPT !.growth_progress = 0]]

C15_ResolverRecurrence ==
    /\ \A k \in DOMAIN branches :
           /\ branches[k].parent_index = -1 =>
                  calculateAbsoluteBranchStart(branches, k - 1)
                      = VMul(branches[k].start, growth_duration)
           /\ branches[k].parent_index # -1 =>
                  calculateAbsoluteBranchStart(branches, k - 1)
                      = calculateAbsoluteBranchEnd(branches, branches[k].parent_index)
           /\ calculateAbsoluteBranchEnd(branches, k - 1)
                  = VAdd(calculateAbsoluteBranchStart(branches, k - 1),
                         VMul(StoredVec(branches[k]), branches[k].growth_progress))
           /\ branches[k].generation = 2 =>
                  calculateAbsoluteBranchEnd(branches, k - 1)
                      = ChainEnd(branches[ParentOf(k).parent_index + 1], ParentOf(k),
                                 branches[k])
    /\ branches # <<>> =>
           /\ calculateAbsoluteBranchEnd(OnlyRootGrown, 0)
                  = calculateAbsoluteBranchEnd(branches, 0)
           /\ calculateAbsoluteBranchEnd(branches, 0)
                  = VAdd(VMul(branches[1].start, growth_duration),
                         VMul(StoredVec(branches[1]), branches[1].growth_progress))
    /\ calculateAbsoluteBranchEnd(ChainExample, 2)
           = ChainEnd(ChainExample[1], ChainExample[2], ChainExample[3])
    /\ calculateAbsoluteBranchEnd(ChainExample, 2)
           = VAdd(VMul(Vec3(1000, 0, -2000), 400),
                  VAdd(VMul(Vec3(0, 3000, 0), 400),
                       VAdd(VMul(Vec3(1680, 1260, 0), 200),
                            VMul(Vec3(0, 882, -1176), 100))))

\* A chain whose three growth fractions differ: the root fully grown, a
\* primary and a secondary branch of it partly grown.
C15_Witness ==
    /\ last_call = "updateGrowth"
    /\ branches # <<>>
    /\ branches[1].growth_progress = growth_duration
    /\ \E k \in PartlyGrownBranches :
           /\ branches[k].generation = 2
           /\ branches[k].parent_index + 1 \in PartlyGrownBranches
           /\ ParentOf(k).growth_progress # branches[k].growth_progress

(***************************************************************************)
(* C16: for a branch index that is negative or >= the number of branches,  *)
(* absoluteStart(index) and absoluteEnd(index) return the zero vector.     *)
(* (Both functions only read the tree.)                                    *)
(***************************************************************************)
InvalidIndices == {-3, -1, Len(branches), Len(branches) + 2}

C16_InvalidIndexYieldsZero ==
    \A index \in InvalidIndices :
        /\ calculateAbsoluteBranchStart(branches, index) = Vec3(0, 0, 0)
        /\ calculateAbsoluteBranchEnd(branches, index) = Vec3(0, 0, 0)

\* A grown tree, where the valid indices resolve to points other than zero.
C16_Witness ==
    /\ last_call = "updateGrowth"
    /\ branches # <<>>
    /\ calculateAbsoluteBranchEnd(branches, 0) # Vec3(0, 0, 0)
    /\ calculateAbsoluteBranchStart(branches, Len(branches) - 1) # Vec3(0, 0, 0)
    /\ \A index \in InvalidIndices : ~valid_index(branches, index)

(***************************************************************************)
(* C17: for every leaf with growth fraction g > 0, the edge length of the  *)
(* quad emitted by the leaf mesh rebuild equals leaf.size * g exactly      *)
(* (linear grow-in with no minimum-size floor).                            *)
(***************************************************************************)
IsStartedLeaf(leaf) == leaf.growth_progress > 0

\* The leaves in the buffer, in the order of their quads.
StartedLeafSeq == SelectSeq(leaves, IsStartedLeaf)

\* The edge length of the m-th quad of leaf_vertices (scaled by
\* leaf_growth_duration^2): all 12 vertices carry it.
QuadEdge(m) == leaf_vertices[12 * (m - 1) + 1].position[2]

C17_LeafQuadEdgeLinear ==
    last_call = "updateGrowth" =>
        /\ Len(leaf_vertices) = 12 * Len(StartedLeafSeq)
        /\ \A m \in DOMAIN StartedLeafSeq :
               QuadEdge(m) = StartedLeafSeq[m].size * StartedLeafSeq[m].growth_progress
                                 * leaf_growth_duration

(***************************************************************************)
(* C18 (as stated): within a single updateGrowth call, every branch of     *)
(* generation g is updated before any branch of generation g + 1.          *)
(***************************************************************************)
C18_AscendingGenerationOrder ==
    last_call = "updateGrowth" =>
        \A i, j \in DOMAIN branches :
            branches[j].generation = branches[i].generation + 1
                => visited_before(i - 1, j - 1)

(***************************************************************************)
(* C18 (amended): within a single updateGrowth call the branches are       *)
(* updated in creation (index) order, which is depth-first: every non-root *)
(* branch is updated after its parent, while the generations interleave    *)
(* (some branch of generation g + 1 is updated before a branch of          *)
(* generation g).                                                          *)
(***************************************************************************)
C18_DepthFirstOrder ==
    (last_call = "updateGrowth" /\ branches # <<>>) =>
        /\ \A k \in NonRootBranches : visited_before(branches[k].parent_index, k - 1)
        /\ \E i, j \in DOMAIN branches :
               /\ branches[j].generation = branches[i].generation + 1
               /\ visited_before(j - 1, i - 1)

\* A secondary branch has started, and so has a primary branch that the loop
\* reaches only after it.
C18_Witness ==
    /\ last_call = "updateGrowth"
    /\ \E i, j \in StartedBranches :
           /\ branches[i].generation = 1
           /\ branches[j].generation = 2
           /\ j < i

(***************************************************************************)
(* C19: within a single updateGrowth call every non-root branch is updated *)
(* after its own parent, so the parent growth fraction read by the child's *)
(* 0.6 gate is the value already recomputed in that same call; likewise    *)
(* every leaf is updated after its parent branch.                          *)
(***************************************************************************)
C19_ChildReadsUpdatedParent ==
    [][last_call' = "updateGrowth" =>
          LET updated == [i \in 0..(Len(branches) - 1) |-> branches'[i + 1]]
          IN /\ \A k \in NonRootBranches :
                    /\ visited_before(branches[k].parent_index, k - 1)
                    /\ parent_seen(branches, updated, k - 1)
                           = branches'[branches[k].parent_index + 1]
                    /\ branches'[k].growth_progress
                           = updateBranch(branches, branches[k],
                                          branches'[branches[k].parent_index + 1],
                                          current_growth_time')
             /\ \A j \in DOMAIN leaves :
                    leaves'[j].growth_progress
                        = updateLeaf(branches', current_growth_time', leaves[j])]_vars

\* After an update: a child under way below a parent that is still moving,
\* and a leaf under way on a branch that is still moving.
C19_Witness ==
    /\ last_call = "updateGrowth"
    /\ \E k \in NonRootBranches :
           /\ k \in PartlyGrownBranches
           /\ branches[k].parent_index + 1 \in PartlyGrownBranches
    /\ \E j \in PartlyGrownLeaves :
           leaves[j].parent_branch_index + 1 \in PartlyGrownBranches

(***************************************************************************)
(* C20: every branch, of any generation, takes 0.4 * T of elapsed time to  *)
(* go from growth fraction 0 to 1 and does not start at a value above 0:   *)
(* a branch that is at 0 before an updateGrowth(dt) call is at most at     *)
(* dt / (0.4 * T) after it.                                                *)
(***************************************************************************)
C20_GrowsFromZeroOverDuration ==
    [][last_call' = "updateGrowth" =>
          \A k \in DOMAIN branches :
              branches[k].growth_progress = 0 =>
                  branches'[k].growth_progress * 40 * TotalGrowthTime
                      <= (elapsed_time' - elapsed_time) * 100 * growth_duration]_vars

(***************************************************************************)
(* C21: every leaf takes 0.1 * T of elapsed time to go from growth         *)
(* fraction 0 to 1 once it starts, for every spawn delay: a leaf that is   *)
(* at 0 before an updateGrowth(dt) call is at most at dt / (0.1 * T) after *)
(* it.                                                                     *)
(***************************************************************************)
C21_LeafGrowsFromZeroOverDuration ==
    [][last_call' = "updateGrowth" =>
          \A j \in DOMAIN leaves :
              leaves[j].growth_progress = 0 =>
                  leaves'[j].growth_progress * 10 * TotalGrowthTime
                      <= (elapsed_time' - elapsed_time) * 100 * leaf_growth_duration]_vars

(***************************************************************************)
(* C22: for every non-root branch, parent_60_percent_time = 0.6 *          *)
(* growth_duration + parent.generation * generation_delay is the elapsed   *)
(* time at which the parent's growth fraction reaches 0.6: the parent is   *)
(* at 0.6 or beyond exactly when the elapsed time has reached that value.  *)
(***************************************************************************)
C22_Parent60TimeIsActual ==
    \A k \in NonRootBranches :
        (elapsed_time >= parent_60_percent_time(ParentOf(k)))
            <=> (ParentOf(k).growth_progress * 10 >= 6 * growth_duration)

(***************************************************************************)
(* C23: after any updateGrowth call, getBranchVertexCount() / 24 equals    *)
(* the number of branches with growth fraction > 0.                        *)
(***************************************************************************)
C23_VertexCountOver24 ==
    last_call = "updateGrowth" =>
        getBranchVertexCount \div 24 = Cardinality(StartedBranches)

(***************************************************************************)
(* C24: updateGrowth(dt) leaves the tree structure unchanged: the number   *)
(* of branches and leaves, every branch's start, end, radius, generation,  *)
(* parent index and child list, and every leaf's position, normal, size,   *)
(* spawn delay and parent index are the same after the call as before.     *)
(***************************************************************************)
C24_StructureUnchanged ==
    [][last_call' = "updateGrowth" =>
          /\ Len(branches') = Len(branches)
          /\ Len(leaves') = Len(leaves)
          /\ \A k \in DOMAIN branches :
                 /\ branches'[k].start = branches[k].start
                 /\ branches'[k].end = branches[k].end
                 /\ branches'[k].radius = branches[k].radius
                 /\ branches'[k].generation = branches[k].generation
                 /\ branches'[k].parent_index = branches[k].parent_index
                 /\ branches'[k].children = branches[k].children
          /\ \A j \in DOMAIN leaves :
                 /\ leaves'[j].position = leaves[j].position
                 /\ leaves'[j].normal = leaves[j].normal
                 /\ leaves'[j].size = leaves[j].size
                 /\ leaves'[j].spawn_delay = leaves[j].spawn_delay
                 /\ leaves'[j].parent_branch_index = leaves[j].parent_branch_index]_vars

\* Several updates have moved the timer, the growth fractions and the buffers.
C24_Witness ==
    /\ last_call = "updateGrowth"
    /\ current_growth_time > 0
    /\ current_growth_time \notin DeltaChoices
    /\ PartlyGrownLeaves # {}
    /\ \E k \in PartlyGrownBranches : branches[k].children # <<>>
    /\ leaf_vertices # <<>>

(***************************************************************************)
(* C25: a leaf has growth fraction > 0 only if its parent branch's growth  *)
(* fraction is strictly greater than 0.4; so no leaf is in the leaf vertex *)
(* buffer while its parent branch is absent from the branch vertex buffer. *)
(***************************************************************************)
C25_LeafWaitsForParent ==
    \A j \in DOMAIN leaves :
        /\ leaves[j].growth_progress > 0
               => FractionGt(LeafParent(j).growth_progress, growth_duration, 4, 10)
        /\ leafMeshOf(branches, leaves[j]) # <<>>
               => branchMeshOf(branches, leaves[j].parent_branch_index) # <<>>

\* A leaf has started; another, whose own start time has passed, is still at
\* 0 because its parent branch grows but is not beyond 0.4.
C25_Witness ==
    /\ StartedLeaves # {}
    /\ \E j \in DOMAIN leaves :
           /\ leaves[j].growth_progress = 0
           /\ LeafParent(j).growth_progress > 0
           /\ ~FractionGt(LeafParent(j).growth_progress, growth_duration, 4, 10)
           /\ elapsed_time > LeafParent(j).generation * generation_delay
                                 + leaf_start_offset + leaves[j].spawn_delay

(***************************************************************************)
(* C26: after generate(), no branch has generation > max_generations;      *)
(* every branch with generation < max_generations has between 2 and 4      *)
(* children and every branch with generation = max_generations has none;   *)
(* every branch of generation >= 2 has between 6 and 14 leaves; a branch   *)
(* index appears in its parent's child list exactly once and in no other   *)
(* child list.                                                             *)
(***************************************************************************)
Occurrences(list, x) == Cardinality({n \in DOMAIN list : list[n] = x})

C26_ChildAndLeafCounts ==
    last_call = "generate" =>
        /\ \A k \in DOMAIN branches :
               /\ branches[k].generation <= max_generations
               /\ branches[k].generation < max_generations =>
                      Len(branches[k].children) \in 2..4
               /\ branches[k].generation = max_generations =>
                      branches[k].children = <<>>
               /\ branches[k].generation >= 2 => Cardinality(LeavesOf(k)) \in 6..14
        /\ \A k, q \in DOMAIN branches :
               Occurrences(branches[q].children, k - 1)
                   = IF branches[k].parent_index = q - 1 THEN 1 ELSE 0

\* A generated tree in which the lowest and the highest counts occur.
C26_Witness ==
    /\ last_call = "generate"
    /\ \E k \in DOMAIN branches : Len(branches[k].children) = 2
    /\ \E k \in DOMAIN branches : Len(branches[k].children) = 4
    /\ \E k \in DOMAIN branches : branches[k].generation = max_generations
    /\ \E k \in DOMAIN branches : Cardinality(LeavesOf(k)) = 6
    /\ \E k \in DOMAIN branches : Cardinality(LeavesOf(k)) = 14

(***************************************************************************)
(* C27: all branches of the same generation have the same growth fraction: *)
(* it is determined by the generation and the elapsed time alone.          *)
(***************************************************************************)
C27_SameGenerationSameGrowth ==
    \A i, j \in DOMAIN branches :
        branches[i].generation = branches[j].generation
            => branches[i].growth_progress = branches[j].growth_progress

\* Branches of one generation with different numbers of siblings are under
\* way, while other generations are at other growth fractions.
C27_Witness ==
    /\ last_call = "updateGrowth"
    /\ \E i, j \in PartlyGrownBranches :
           /\ i # j
           /\ branches[i].generation = branches[j].generation
           /\ branches[i].parent_index # branches[j].parent_index
           /\ Len(ParentOf(i).children) # Len(ParentOf(j).children)
    /\ Cardinality({branches[k].growth_progress : k \in DOMAIN branches}) >= 3

(***************************************************************************)
(* C28: growth completes and then stabilises.  If updateGrowth is called   *)
(* repeatedly with deltas bounded below by a positive constant, eventually *)
(* every branch and every leaf has growth fraction 1, and from then on     *)
(* further updateGrowth calls change no growth fraction and leave both     *)
(* vertex buffers' contents unchanged.                                     *)
(***************************************************************************)
AllFullyGrown ==
    /\ branches # <<>>
    /\ \A k \in DOMAIN branches : branches[k].growth_progress = growth_duration
    /\ \A j \in DOMAIN leaves : leaves[j].growth_progress = leaf_growth_duration

C28_GrowthCompletesAndStabilises ==
    /\ <>[]AllFullyGrown
    /\ [][(AllFullyGrown /\ last_call' = "updateGrowth") =>
              /\ branches' = branches
              /\ leaves' = leaves
              /\ branch_vertices' = branch_vertices
              /\ leaf_vertices' = leaf_vertices]_vars

\* The fully grown tree after a further update, with every branch and leaf
\* in the buffers.
C28_Witness ==
    /\ last_call = "updateGrowth"
    /\ AllFullyGrown
    /\ elapsed_time = (MaxTime \div 10) * 10
    /\ Len(branch_vertices) = 6 * segments * Len(branches)
    /\ Len(leaf_vertices) = 12 * Len(leaves)

(***************************************************************************)
(* C29: every non-root branch's stored start equals its parent's stored    *)
(* end, so when every growth fraction on a branch's ancestor chain (itself *)
(* included) is 1, absoluteStart(b) and absoluteEnd(b) equal the branch's  *)
(* stored start and end, and the world position used for each of its       *)
(* leaves equals the leaf's stored position.                               *)
(***************************************************************************)
RECURSIVE ChainFullyGrown(_)

\* Branch k (position in the sequence) and all its ancestors are fully grown.
ChainFullyGrown(k) ==
    /\ branches[k].growth_progress = growth_duration
    /\ branches[k].parent_index >= 0 => ChainFullyGrown(branches[k].parent_index + 1)

\* The centre of the m-th quad of leaf_vertices (scaled by growth_duration).
QuadCentre(m) == leaf_vertices[12 * (m - 1) + 1].position[1]

C29_FullChainAtStoredPositions ==
    /\ \A k \in NonRootBranches : branches[k].start = ParentOf(k).end
    /\ \A k \in DOMAIN branches :
           ChainFullyGrown(k) =>
               /\ calculateAbsoluteBranchStart(branches, k - 1)
                      = VMul(branches[k].start, growth_duration)
               /\ calculateAbsoluteBranchEnd(branches, k - 1)
                      = VMul(branches[k].end, growth_duration)
    /\ last_call = "updateGrowth" =>
           \A m \in DOMAIN StartedLeafSeq :
               ChainFullyGrown(StartedLeafSeq[m].parent_branch_index + 1) =>
                   QuadCentre(m) = VMul(StartedLeafSeq[m].position, growth_duration)

\* A leaf is drawn on a branch whose whole chain is fully grown, while other
\* branches are still under way.
C29_Witness ==
    /\ last_call = "updateGrowth"
    /\ \E j \in StartedLeaves : ChainFullyGrown(leaves[j].parent_branch_index + 1)
    /\ \E k \in DOMAIN branches : branches[k].generation >= 2 /\ ChainFullyGrown(k)
    /\ PartlyGrownBranches # {}

(***************************************************************************)
(* C30: after every updateGrowth call the vertex buffers are rebuilt from  *)
(* scratch: the branch buffer length is exactly 9 * 48 * (number of        *)
(* branches with growth fraction > 0) and the leaf buffer length exactly   *)
(* 9 * 12 * (number of leaves with growth fraction > 0); both lengths are  *)
(* multiples of 9 and the reported vertex counts do not accumulate.        *)
(***************************************************************************)
\* The number of floats in a buffer: every vertex is one insert of 9 floats.
FloatLength(vertices) == 9 * Len(vertices)

====
